---- MODULE Spec2Model ----
(***************************************************************************)
(* Verification model of the bevy_space_program experiments.               *)
(*                                                                         *)
(*  - experiment_001: the AppState machine (Loading, Generating, Spawning, *)
(*    Running), collider generation, the spawning frame and the zoom part  *)
(*    of camera_controls.                                                  *)
(*  - experiment_002: update_hud_reticles and spawn_pellet in the Running  *)
(*    state.                                                               *)
(*  - experiment_003: update_targeting_overlay.                            *)
(*                                                                         *)
(* Engine behaviour that the handlers rely on is modelled as follows.      *)
(*  - A frame runs the StateTransition schedule (which applies a queued    *)
(*    NextState) and then the Update schedule.  The systems of one         *)
(*    schedule run once each, in any order; Commands are applied when the  *)
(*    schedule ends.                                                       *)
(*  - f32 values are integers in a fixed unit: angles in units of          *)
(*    PI / 10000, overlay and viewport coordinates in pixels,              *)
(*    translations in eighths of a metre.                                  *)
(***************************************************************************)
EXTENDS Integers, Sequences, FiniteSets, TLC

VARIABLES
    \* ---- experiment_001 ----
    e1_state,           \* State<AppState>
    e1_next_state,      \* NextState<AppState>: NoneV or Some(state)
    e1_loaded,          \* assets present in Assets<Mesh> / Assets<Scene>
    e1_collider_assets, \* TRUE iff the ColliderAssets resource exists
    e1_commands,        \* Commands queued by the systems of this frame
    e1_world,           \* entities of the world, counted by kind
    e1_fov,             \* PerspectiveProjection.fov of TheCamera
    e1_input,           \* ButtonInput / Events resources of this frame
    e1_phase,           \* schedule the frame is in
    e1_ran,             \* Update systems that already ran in this frame
    e1_app_exit,        \* TRUE iff an AppExit event was sent
    e1_status,          \* "running", "exited" (AppExit) or "panicked"
    e1_spawning_runs,   \* number of frames in which initiate_spawning ran
    e1_key_i_frames,    \* number of Running frames with KeyI just pressed
    \* ---- experiment_002, Running state ----
    e2_phase,           \* schedule the frame is in (reticles)
    e2_pellet_phase,    \* schedule the frame is in (pellets)
    e2_btn,             \* ButtonInput<MouseButton>, right button
    e2_origin,          \* GridTransform of the FloatingOrigin entity
    e2_pellets,         \* pellet entities, in spawn order
    e2_viewport,        \* world_to_viewport of every ValidTarget
    e2_camera_2d,       \* the overlay Camera2d
    e2_cursor_target_crosshair,   \* CursorTargetCrosshair entity
    e2_target_object_crosshair,   \* TargetObjectCrosshair entity
    e2_nearest_object_crosshair,  \* NearestObjectCrosshair entity
    e2_target_display,  \* first line of the TargetDisplay text
    e2_target,          \* TargetResource.target
    e2_command_entry,   \* CommandEntryResource.current_command_entry
    e2_nav_mode,        \* OpsModeResource.current_nav_mode
    e2_run,             \* locals of the last run of update_hud_reticles
    \* ---- experiment_003 ----
    e3_pending,         \* systems of Update still to run in this frame
    e3_status,          \* "running" or "panicked"
    e3_viewport,        \* world_to_viewport of every ValidTarget
    e3_camera_2d,       \* the overlay Camera2d
    e3_cursor_nearest_reticle,  \* CursorNearestReticle entity
    e3_target_object_reticle,   \* TargetObjectReticle entity
    e3_target_label,    \* TargetLabel entity: Visibility, Style, Text
    e3_target,          \* TargetResource.target
    e3_run,             \* locals of the last run of update_targeting_overlay
    \* ---- experiment_002, from start-up to the Running state ----
    e2_app_state,       \* State<AppState>
    e2_app_next_state,  \* NextState<AppState>: NoneV or Some(state)
    e2_app_phase,       \* schedule the frame is in
    e2_app_ran,         \* systems that already ran in this schedule
    e2_app_status,      \* "running" or "panicked"
    e2_assets,          \* assets present in Assets<Scene/Mesh/Image>
    e2_skybox_layers,   \* array layers of the milky-way skybox Image
    e2_window,          \* TRUE iff the PrimaryWindow entity exists
    e2_app_commands,    \* Commands queued by the systems of this schedule
    e2_resources,       \* resources inserted by general_setup
    e2_entities,        \* entities spawned by the setup systems, by kind
    e2_history          \* counters: frames per state, runs per system

e2_vars == << e2_phase, e2_pellet_phase, e2_btn, e2_origin, e2_pellets, e2_viewport,
              e2_camera_2d, e2_cursor_target_crosshair,
              e2_target_object_crosshair, e2_nearest_object_crosshair,
              e2_target_display, e2_target, e2_command_entry, e2_nav_mode,
              e2_run >>

e1_vars == << e1_state, e1_next_state, e1_loaded, e1_collider_assets,
              e1_commands, e1_world, e1_fov, e1_input, e1_phase, e1_ran,
              e1_app_exit, e1_status, e1_spawning_runs, e1_key_i_frames >>

e3_vars == << e3_pending, e3_status, e3_viewport, e3_camera_2d, e3_cursor_nearest_reticle,
              e3_target_object_reticle, e3_target_label, e3_target, e3_run >>

e2_app_vars == << e2_app_state, e2_app_next_state, e2_app_phase, e2_app_ran,
                  e2_app_status, e2_assets, e2_skybox_layers, e2_window,
                  e2_app_commands, e2_resources, e2_entities, e2_history >>

vars == << e1_vars, e2_vars, e3_vars, e2_app_vars >>

(***************************************************************************)
(* Option<T>                                                               *)
(***************************************************************************)
NoneV == [tag |-> "None"]

Some(v) == [tag |-> "Some", val |-> v]

IsSome(o) == o.tag = "Some"

(***************************************************************************)
(* ButtonInput<T>                                                          *)
(***************************************************************************)
ButtonEvents == {"none", "Pressed", "Released", "PressedReleased"}

\* ButtonInput<T> of one button after the input system handled the
\* events of the frame: clear(), then press() / release() per event
ButtonAfter(btn, events) ==
    CASE events = "none" ->
           [pressed |-> btn.pressed, just_pressed |-> FALSE]
      [] events = "Pressed" ->
           [pressed |-> TRUE, just_pressed |-> ~btn.pressed]
      [] events = "Released" ->
           [pressed |-> FALSE, just_pressed |-> FALSE]
      [] events = "PressedReleased" ->
           [pressed |-> FALSE, just_pressed |-> ~btn.pressed]

(***************************************************************************)
(* Bounds                                                                  *)
(***************************************************************************)
\* MouseWheel events delivered to one frame
MaxWheelEvents == 2

\* pellets spawned in one run
MaxPellets == 2

\* Running frames of experiment_001 in which KeyI is just pressed
MaxKeyIFrames == 1

(***************************************************************************)
(* experiment_001: constants                                               *)
(***************************************************************************)
\* std::f32::consts::PI, in fov units
PI == 10000

\* CAMERA_ZOOM_SPEED = 1.1 = CAMERA_ZOOM_SPEED_NUM / CAMERA_ZOOM_SPEED_DEN
CAMERA_ZOOM_SPEED_NUM == 11

CAMERA_ZOOM_SPEED_DEN == 10

CAMERA_ZOOM_MINIMUM == PI \div 2

CAMERA_ZOOM_MAXIMUM == PI \div 1000

\* PerspectiveProjection { near: 0.01, ..default() }: the default fov
DefaultFov == PI \div 4

\* for i in 0..100
ChainLength == 100

AppStates == {"Loading", "Generating", "Spawning", "Running"}

MeshHandles == {"command_pod_mesh", "torus_mesh", "earth_mesh"}

SceneHandles == {"command_pod_scene", "torus_scene", "earth_scene"}

NoEntities == [light |-> 0, earth |-> 0, command_pod |-> 0, torus |-> 0]

NoCommands == [insert_collider_assets |-> FALSE, spawn |-> NoEntities]

\* MouseWheel.y of one event: only its sign is read
WheelY == {-1, 0, 1}

WheelEventSeqs == UNION {[1..n -> WheelY] : n \in 0..MaxWheelEvents}

NoButton == [pressed |-> FALSE, just_pressed |-> FALSE]

NoInput == [middle |-> FALSE, wheel |-> << >>, escape |-> FALSE,
            key_i |-> NoButton]

\* f32 multiplication / division, rounded to the nearest unit
RoundDiv(a, b) == (2 * a + b) \div (2 * b)

(***************************************************************************)
(* experiment_001: the run conditions of main()                            *)
(***************************************************************************)
UpdateSystems(state) ==
    CASE state = "Loading"    -> {"app_loading", "app_controls"}
      [] state = "Generating" -> {"generate_resources", "app_controls"}
      [] state = "Spawning"   -> {"initiate_spawning", "app_controls"}
      [] state = "Running"    -> {"camera_controls", "state_controls",
                                  "app_controls"}

CanRun(system) ==
    /\ e1_status = "running"
    /\ e1_phase = "Update"
    /\ system \in UpdateSystems(e1_state)
    /\ system \notin e1_ran

(***************************************************************************)
(* experiment_001: engine steps                                            *)
(***************************************************************************)
\* the asset server finishes loading one asset
AssetLoaded ==
    /\ e1_status = "running"
    /\ e1_phase = "PreUpdate"
    /\ \E a \in (MeshHandles \cup SceneHandles) \ e1_loaded :
          e1_loaded' = e1_loaded \cup {a}
    /\ UNCHANGED << e1_state, e1_next_state, e1_collider_assets, e1_commands,
                    e1_world, e1_fov, e1_input, e1_phase, e1_ran,
                    e1_app_exit, e1_status, e1_spawning_runs,
                    e1_key_i_frames >>
    /\ UNCHANGED << e2_vars, e3_vars, e2_app_vars >>

\* PreUpdate: the input systems fill ButtonInput and the event queues
InputSystem ==
    /\ e1_status = "running"
    /\ e1_phase = "PreUpdate"
    /\ \E middle \in BOOLEAN, wheel \in WheelEventSeqs, escape \in BOOLEAN,
          key_i_events \in ButtonEvents :
          /\ e1_input' = [middle |-> middle, wheel |-> wheel,
                          escape |-> escape,
                          key_i |-> ButtonAfter(e1_input.key_i, key_i_events)]
          /\ e1_input'.key_i.just_pressed => e1_key_i_frames < MaxKeyIFrames
    /\ e1_phase' = "StateTransition"
    /\ UNCHANGED << e1_state, e1_next_state, e1_loaded, e1_collider_assets,
                    e1_commands, e1_world, e1_fov, e1_ran, e1_app_exit,
                    e1_status, e1_spawning_runs,
                    e1_key_i_frames >>
    /\ UNCHANGED << e2_vars, e3_vars, e2_app_vars >>

\* StateTransition schedule: apply_state_transition::<AppState>
StateTransition ==
    /\ e1_status = "running"
    /\ e1_phase = "StateTransition"
    /\ IF IsSome(e1_next_state)
          THEN /\ e1_state' = e1_next_state.val
               /\ e1_next_state' = NoneV
          ELSE UNCHANGED << e1_state, e1_next_state >>
    /\ e1_phase' = "Update"
    /\ e1_key_i_frames' =
          IF e1_state' = "Running" /\ e1_input.key_i.just_pressed
            THEN e1_key_i_frames + 1
            ELSE e1_key_i_frames
    /\ UNCHANGED << e1_loaded, e1_collider_assets, e1_commands, e1_world,
                    e1_fov, e1_input, e1_ran, e1_app_exit, e1_status,
                    e1_spawning_runs >>
    /\ UNCHANGED << e2_vars, e3_vars, e2_app_vars >>

\* end of the Update schedule: Commands are applied, AppExit is honoured
EndFrame ==
    /\ e1_status = "running"
    /\ e1_phase = "Update"
    /\ e1_ran = UpdateSystems(e1_state)
    /\ e1_collider_assets' =
          (e1_collider_assets \/ e1_commands.insert_collider_assets)
    /\ e1_world' = [k \in DOMAIN e1_world |->
                      e1_world[k] + e1_commands.spawn[k]]
    /\ e1_commands' = NoCommands
    /\ e1_status' = IF e1_app_exit THEN "exited" ELSE "running"
    /\ e1_input' = [NoInput EXCEPT !.key_i.pressed = e1_input.key_i.pressed]
    /\ e1_ran' = {}
    /\ e1_phase' = "PreUpdate"
    /\ UNCHANGED << e1_state, e1_next_state, e1_loaded, e1_fov, e1_app_exit,
                    e1_spawning_runs,
                    e1_key_i_frames >>
    /\ UNCHANGED << e2_vars, e3_vars, e2_app_vars >>

(***************************************************************************)
(* experiment_001: systems of the Update schedule                          *)
(***************************************************************************)
\* app_loading with the wrong target state
app_loading_skips_generating ==
    /\ CanRun("app_loading")
    /\ e1_next_state' = IF (SceneHandles \cup MeshHandles) \subseteq e1_loaded
                           THEN Some("Spawning")
                           ELSE e1_next_state
    /\ e1_ran' = e1_ran \cup {"app_loading"}
    /\ UNCHANGED << e1_state, e1_loaded, e1_collider_assets, e1_commands,
                    e1_world, e1_fov, e1_input, e1_phase, e1_app_exit,
                    e1_status, e1_spawning_runs,
                    e1_key_i_frames >>
    /\ UNCHANGED << e2_vars, e3_vars, e2_app_vars >>

app_loading ==
    /\ CanRun("app_loading")
    /\ LET scenes_loaded == SceneHandles \subseteq e1_loaded
           meshes_loaded == MeshHandles \subseteq e1_loaded
       IN  e1_next_state' = IF scenes_loaded /\ meshes_loaded
                               THEN Some("Generating")
                               ELSE e1_next_state
    /\ e1_ran' = e1_ran \cup {"app_loading"}
    /\ UNCHANGED << e1_state, e1_loaded, e1_collider_assets, e1_commands,
                    e1_world, e1_fov, e1_input, e1_phase, e1_app_exit,
                    e1_status, e1_spawning_runs,
                    e1_key_i_frames >>
    /\ UNCHANGED << e2_vars, e3_vars, e2_app_vars >>

\* command_pod, torus, earth: whether Collider::from_bevy_mesh returned Some
generate_resources ==
    /\ CanRun("generate_resources")
    /\ IF MeshHandles \subseteq e1_loaded
          THEN \E command_pod_collider \in BOOLEAN, torus_collider \in BOOLEAN,
                  earth_collider \in BOOLEAN :
                 /\ e1_commands' =
                       IF command_pod_collider /\ torus_collider
                          /\ earth_collider
                         THEN [e1_commands EXCEPT
                                 !.insert_collider_assets = TRUE]
                         ELSE e1_commands
                 /\ e1_next_state' = Some("Spawning")
                 /\ e1_ran' = e1_ran \cup {"generate_resources"}
                 /\ UNCHANGED e1_status
          ELSE \* mesh.expect(..) on a mesh that is not loaded
               /\ e1_status' = "panicked"
               /\ UNCHANGED << e1_commands, e1_next_state, e1_ran >>
    /\ UNCHANGED << e1_state, e1_loaded, e1_collider_assets, e1_world, e1_fov,
                    e1_input, e1_phase, e1_app_exit, e1_spawning_runs,
                    e1_key_i_frames >>
    /\ UNCHANGED << e2_vars, e3_vars, e2_app_vars >>

initiate_spawning ==
    /\ CanRun("initiate_spawning")
    /\ IF e1_collider_assets
          THEN /\ e1_commands' =
                     [e1_commands EXCEPT
                        !.spawn = [light |-> @.light + 1,
                                   earth |-> @.earth + 1,
                                   command_pod |-> @.command_pod + 1,
                                   torus |-> @.torus + ChainLength]]
               /\ e1_next_state' = Some("Running")
               /\ e1_ran' = e1_ran \cup {"initiate_spawning"}
               /\ e1_spawning_runs' = e1_spawning_runs + 1
               /\ UNCHANGED e1_status
          ELSE \* Res<ColliderAssets> does not exist: the system panics
               /\ e1_status' = "panicked"
               /\ UNCHANGED << e1_commands, e1_next_state, e1_ran,
                               e1_spawning_runs >>
    /\ UNCHANGED << e1_state, e1_loaded, e1_collider_assets, e1_world, e1_fov,
                    e1_input, e1_phase, e1_app_exit, e1_key_i_frames >>
    /\ UNCHANGED << e2_vars, e3_vars, e2_app_vars >>

\* the loop body without the upper clamp
camera_controls_wheel_unclamped(current_fov, y) ==
    LET divided == IF y > 0
                     THEN RoundDiv(current_fov * CAMERA_ZOOM_SPEED_DEN,
                                   CAMERA_ZOOM_SPEED_NUM)
                     ELSE current_fov
        multiplied == IF y < 0
                        THEN RoundDiv(divided * CAMERA_ZOOM_SPEED_NUM,
                                      CAMERA_ZOOM_SPEED_DEN)
                        ELSE divided
    IN  IF multiplied < CAMERA_ZOOM_MAXIMUM
          THEN CAMERA_ZOOM_MAXIMUM
          ELSE multiplied

\* one iteration of the loop over the MouseWheel events
camera_controls_wheel(current_fov, y) ==
    LET divided == IF y > 0
                     THEN RoundDiv(current_fov * CAMERA_ZOOM_SPEED_DEN,
                                   CAMERA_ZOOM_SPEED_NUM)
                     ELSE current_fov
        multiplied == IF y < 0
                        THEN RoundDiv(divided * CAMERA_ZOOM_SPEED_NUM,
                                      CAMERA_ZOOM_SPEED_DEN)
                        ELSE divided
        below_minimum == IF multiplied > CAMERA_ZOOM_MINIMUM
                           THEN CAMERA_ZOOM_MINIMUM
                           ELSE multiplied
    IN  IF below_minimum < CAMERA_ZOOM_MAXIMUM
          THEN CAMERA_ZOOM_MAXIMUM
          ELSE below_minimum

RECURSIVE camera_controls_wheel_loop(_, _)
camera_controls_wheel_loop(fov, events) ==
    IF events = << >>
      THEN fov
      ELSE camera_controls_wheel_loop(camera_controls_wheel(fov, Head(events)),
                                      Tail(events))

\* the field of view after camera_controls
camera_controls_fov(fov, middle, events) ==
    camera_controls_wheel_loop(IF middle THEN PI \div 4 ELSE fov, events)

camera_controls ==
    /\ CanRun("camera_controls")
    /\ e1_fov' = camera_controls_fov(e1_fov, e1_input.middle, e1_input.wheel)
    /\ e1_ran' = e1_ran \cup {"camera_controls"}
    /\ UNCHANGED << e1_state, e1_next_state, e1_loaded, e1_collider_assets,
                    e1_commands, e1_world, e1_input, e1_phase, e1_app_exit,
                    e1_status, e1_spawning_runs,
                    e1_key_i_frames >>
    /\ UNCHANGED << e2_vars, e3_vars, e2_app_vars >>

\* state_controls spawning while KeyI is held
state_controls_while_pressed ==
    /\ CanRun("state_controls")
    /\ IF e1_collider_assets
          THEN /\ e1_commands' =
                     IF e1_input.key_i.pressed
                       THEN [e1_commands EXCEPT !.spawn.command_pod = @ + 1]
                       ELSE e1_commands
               /\ e1_ran' = e1_ran \cup {"state_controls"}
               /\ UNCHANGED e1_status
          ELSE /\ e1_status' = "panicked"
               /\ UNCHANGED << e1_commands, e1_ran >>
    /\ UNCHANGED << e1_state, e1_next_state, e1_loaded, e1_collider_assets,
                    e1_world, e1_fov, e1_input, e1_phase, e1_app_exit,
                    e1_spawning_runs, e1_key_i_frames >>
    /\ UNCHANGED << e2_vars, e3_vars, e2_app_vars >>

\* KeyR only moves the pods that exist; KeyI queues the spawn of one pod.
\* Res<SceneAssets> and Res<ColliderAssets> must exist.
state_controls ==
    /\ CanRun("state_controls")
    /\ IF e1_collider_assets
          THEN /\ e1_commands' =
                     IF e1_input.key_i.just_pressed
                       THEN [e1_commands EXCEPT !.spawn.command_pod = @ + 1]
                       ELSE e1_commands
               /\ e1_ran' = e1_ran \cup {"state_controls"}
               /\ UNCHANGED e1_status
          ELSE /\ e1_status' = "panicked"
               /\ UNCHANGED << e1_commands, e1_ran >>
    /\ UNCHANGED << e1_state, e1_next_state, e1_loaded, e1_collider_assets,
                    e1_world, e1_fov, e1_input, e1_phase, e1_app_exit,
                    e1_spawning_runs, e1_key_i_frames >>
    /\ UNCHANGED << e2_vars, e3_vars, e2_app_vars >>

app_controls ==
    /\ CanRun("app_controls")
    /\ e1_app_exit' = (e1_app_exit \/ e1_input.escape)
    /\ e1_ran' = e1_ran \cup {"app_controls"}
    /\ UNCHANGED << e1_state, e1_next_state, e1_loaded, e1_collider_assets,
                    e1_commands, e1_world, e1_fov, e1_input, e1_phase,
                    e1_status, e1_spawning_runs,
                    e1_key_i_frames >>
    /\ UNCHANGED << e2_vars, e3_vars, e2_app_vars >>

e1_Init ==
    /\ e1_state = "Loading"
    /\ e1_next_state = NoneV
    /\ e1_loaded = {}
    /\ e1_collider_assets = FALSE
    /\ e1_commands = NoCommands
    /\ e1_world = NoEntities
    /\ e1_fov = DefaultFov
    /\ e1_input = NoInput
    /\ e1_phase = "PreUpdate"
    /\ e1_ran = {}
    /\ e1_app_exit = FALSE
    /\ e1_status = "running"
    /\ e1_spawning_runs = 0
    /\ e1_key_i_frames = 0

Next001 ==
    \/ AssetLoaded
    \/ InputSystem
    \/ StateTransition
    \/ app_loading
    \/ generate_resources
    \/ initiate_spawning
    \/ camera_controls
    \/ state_controls
    \/ app_controls
    \/ EndFrame

(***************************************************************************)
(* experiment_002: vectors, camera projections                             *)
(***************************************************************************)
Vec2(x, y) == [x |-> x, y |-> y]

Vec3(x, y, z) == [x |-> x, y |-> y, z |-> z]

Vec3Add(a, b) == Vec3(a.x + b.x, a.y + b.y, a.z + b.z)

\* logical size of the window the overlay camera renders to, in pixels
ViewportSize == Vec2(16, 12)

\* let mut cursor_nearest = Vec2 { x: 10000000.0, y: 10000000.0 }
CursorNearestInit == Vec2(10000000, 10000000)

\* CursorNearestInit.length() in f32: sqrt(2e14) rounds to 14142136.0
CursorNearestInitLength == 14142136

Abs(a) == IF a < 0 THEN -a ELSE a

\* Vec2::length(); the overlay positions of the model have integral lengths
Length(v) ==
    IF v = CursorNearestInit
      THEN CursorNearestInitLength
      ELSE CHOOSE n \in 0..(Abs(v.x) + Abs(v.y)) :
             n * n = v.x * v.x + v.y * v.y

\* Camera::logical_viewport_rect
logical_viewport_rect(camera) ==
    IF camera.viewport
      THEN Some([min |-> Vec2(0, 0), max |-> ViewportSize])
      ELSE NoneV

\* Rect::contains (both bounds inclusive)
Contains(rect, point) ==
    /\ point.x >= rect.min.x /\ point.y >= rect.min.y
    /\ point.x <= rect.max.x /\ point.y <= rect.max.y

\* Camera::viewport_to_world_2d of the overlay camera, which sits at the
\* origin with scale 1: the viewport centre maps to the overlay origin and
\* the y axis is flipped; None without a viewport or when the result is NaN
viewport_to_world_2d(camera, viewport_position) ==
    IF camera.viewport /\ ~camera.nan
      THEN Some(Vec2(viewport_position.x - ViewportSize.x \div 2,
                     ViewportSize.y \div 2 - viewport_position.y))
      ELSE NoneV

\* viewport positions a target can project to: one inside the viewport
\* rect and one outside
ViewportPositions == {Vec2(8, 4), Vec2(18, 6)}

\* results of Camera::world_to_viewport; None: behind the camera
ViewportResults == {NoneV} \cup {Some(p) : p \in ViewportPositions}

Camera2dStates ==
    {[viewport |-> TRUE, nan |-> FALSE], [viewport |-> TRUE, nan |-> TRUE],
     [viewport |-> FALSE, nan |-> FALSE]}

\* the ValidTarget entities spawned by general_setup
SetupTargets == {"planet", "cube_sat_moving", "cube_sat_spinning"}

\* entity ids of the pellets, in spawn order
PelletName == << "pellet1", "pellet2", "pellet3", "pellet4" >>

\* entities matched by valid_targets_query
ValidTargets == SetupTargets \cup {e2_pellets[i].id : i \in DOMAIN e2_pellets}

\* the orders in which a query may iterate over a set of entities
IterationOrders(S) ==
    {f \in [1..Cardinality(S) -> S] :
       \A i, j \in 1..Cardinality(S) : i # j => f[i] # f[j]}

HiddenAtOrigin == [visibility |-> "Hidden", x |-> 0, y |-> 0]

(***************************************************************************)
(* experiment_002: update_hud_reticles                                     *)
(***************************************************************************)
CursorLoopStart ==
    [cursor_target_onscreen |-> FALSE, cursor_nearest |-> CursorNearestInit,
     cursor_nearest_entity |-> NoneV]

\* the loop body that forgets to record the new nearest position
cursor_nearest_step_keeps_start(acc, entity, viewport, camera_2d) ==
    IF ~IsSome(viewport[entity])
      THEN acc
      ELSE LET each_2d == viewport_to_world_2d(camera_2d, viewport[entity].val)
           IN  IF IsSome(each_2d)
                  /\ Length(each_2d.val) < Length(acc.cursor_nearest)
                 THEN [acc EXCEPT !.cursor_target_onscreen = TRUE,
                                  !.cursor_nearest_entity = Some(entity)]
                 ELSE acc

\* one iteration of the loop over valid_targets_query
cursor_nearest_step(acc, entity, viewport, camera_2d) ==
    IF ~IsSome(viewport[entity])
      THEN acc
      ELSE LET each_2d == viewport_to_world_2d(camera_2d, viewport[entity].val)
           IN  IF IsSome(each_2d)
                  /\ Length(each_2d.val) < Length(acc.cursor_nearest)
                 THEN [cursor_target_onscreen |-> TRUE,
                       cursor_nearest |-> each_2d.val,
                       cursor_nearest_entity |-> Some(entity)]
                 ELSE acc

RECURSIVE cursor_nearest_loop(_, _, _, _)
cursor_nearest_loop(order, acc, viewport, camera_2d) ==
    IF order = << >>
      THEN acc
      ELSE cursor_nearest_loop(Tail(order),
                               cursor_nearest_step(acc, Head(order), viewport,
                                                   camera_2d),
                               viewport, camera_2d)

\* the match on the target with the (true, None) arm hiding the crosshair
target_object_crosshair_hides_on_nan(crosshair, viewport_result, rect, camera_2d) ==
    IF ~IsSome(viewport_result)
      THEN [crosshair EXCEPT !.visibility = "Hidden"]
      ELSE LET inside == Contains(rect, viewport_result.val)
               overlay == viewport_to_world_2d(camera_2d, viewport_result.val)
           IN  IF inside /\ IsSome(overlay)
                 THEN [visibility |-> "Visible", x |-> overlay.val.x,
                       y |-> overlay.val.y]
                 ELSE [crosshair EXCEPT !.visibility = "Hidden"]

\* the match on world_to_viewport of the selected target
target_object_crosshair_update(crosshair, viewport_result, rect, camera_2d) ==
    IF ~IsSome(viewport_result)
      THEN [crosshair EXCEPT !.visibility = "Hidden"]
      ELSE LET inside == Contains(rect, viewport_result.val)
               overlay == viewport_to_world_2d(camera_2d, viewport_result.val)
           IN  CASE inside /\ IsSome(overlay) ->
                      [visibility |-> "Visible", x |-> overlay.val.x,
                       y |-> overlay.val.y]
                 [] ~inside /\ IsSome(overlay) ->
                      [crosshair EXCEPT !.visibility = "Hidden"]
                 [] inside /\ ~IsSome(overlay) ->
                      [crosshair EXCEPT !.visibility = "Visible"]
                 [] ~inside /\ ~IsSome(overlay) ->
                      [crosshair EXCEPT !.visibility = "Hidden"]

\* the match on the nearest object with the (true, None) arm reporting
\* offscreen
nearest_object_offscreen_on_nan(crosshair, viewport_result, rect, camera_2d) ==
    IF ~IsSome(viewport_result)
      THEN [crosshair |-> [crosshair EXCEPT !.visibility = "Hidden"],
            target_text |-> "nearest object is behind us"]
      ELSE LET inside == Contains(rect, viewport_result.val)
               overlay == viewport_to_world_2d(camera_2d, viewport_result.val)
           IN  IF inside /\ IsSome(overlay)
                 THEN [crosshair |-> [visibility |-> "Visible",
                                      x |-> overlay.val.x,
                                      y |-> overlay.val.y],
                       target_text |-> "nearest object onscreen"]
                 ELSE [crosshair |-> [crosshair EXCEPT
                                        !.visibility = "Hidden"],
                       target_text |-> "nearest object offscreen"]

\* the match on world_to_viewport of the camera controller's nearest object
nearest_object_update(crosshair, viewport_result, rect, camera_2d) ==
    IF ~IsSome(viewport_result)
      THEN [crosshair |-> [crosshair EXCEPT !.visibility = "Hidden"],
            target_text |-> "nearest object is behind us"]
      ELSE LET inside == Contains(rect, viewport_result.val)
               overlay == viewport_to_world_2d(camera_2d, viewport_result.val)
           IN  CASE inside /\ IsSome(overlay) ->
                      [crosshair |-> [visibility |-> "Visible",
                                      x |-> overlay.val.x,
                                      y |-> overlay.val.y],
                       target_text |-> "nearest object onscreen"]
                 [] ~inside /\ IsSome(overlay) ->
                      [crosshair |-> [crosshair EXCEPT
                                        !.visibility = "Hidden"],
                       target_text |-> "nearest object offscreen"]
                 [] inside /\ ~IsSome(overlay) ->
                      [crosshair |-> [crosshair EXCEPT
                                        !.visibility = "Visible"],
                       target_text |-> "nearest object onscreen"]
                 [] ~inside /\ ~IsSome(overlay) ->
                      [crosshair |-> [crosshair EXCEPT
                                        !.visibility = "Hidden"],
                       target_text |-> "nearest object offscreen"]

\* objects.get(entity): every ValidTarget has a GlobalTransform
Resolves(entity) == entity \in ValidTargets

\* order: iteration order of valid_targets_query; nearest_object: result of
\* cameras.single().nearest_object(); enter: key.just_pressed(Enter)
update_hud_reticles ==
    /\ e2_phase = "PostUpdate"
    /\ e2_phase' = "PreUpdate"
    /\ \E order \in IterationOrders(ValidTargets),
          nearest_object \in {NoneV} \cup {Some(e) : e \in ValidTargets},
          enter \in BOOLEAN :
         LET rect_option == logical_viewport_rect(e2_camera_2d)
             rect == rect_option.val
             cursor == cursor_nearest_loop(order, CursorLoopStart,
                                           e2_viewport, e2_camera_2d)
             target_resolves == IsSome(e2_target) /\ Resolves(e2_target.val)
             nearest_resolves ==
                 IsSome(nearest_object) /\ Resolves(nearest_object.val)
             nearest == nearest_object_update(e2_nearest_object_crosshair,
                                              e2_viewport[nearest_object.val],
                                              rect, e2_camera_2d)
         IN  IF ~IsSome(rect_option)
               THEN /\ e2_run' = [reached |-> "no_rect",
                                  cursor_nearest_entity |-> NoneV,
                                  target |-> e2_target,
                                  nearest |-> NoneV]
                    /\ UNCHANGED << e2_cursor_target_crosshair,
                                    e2_target_object_crosshair,
                                    e2_nearest_object_crosshair,
                                    e2_target_display, e2_target >>
               ELSE /\ e2_cursor_target_crosshair' =
                         IF cursor.cursor_target_onscreen
                           THEN [visibility |-> "Visible",
                                 x |-> cursor.cursor_nearest.x,
                                 y |-> cursor.cursor_nearest.y]
                           ELSE e2_cursor_target_crosshair
                    /\ e2_target_object_crosshair' =
                         IF target_resolves
                           THEN target_object_crosshair_update(
                                    e2_target_object_crosshair,
                                    e2_viewport[e2_target.val], rect,
                                    e2_camera_2d)
                           ELSE e2_target_object_crosshair
                    /\ IF nearest_resolves
                         THEN /\ e2_nearest_object_crosshair' =
                                   nearest.crosshair
                              /\ e2_target_display' = nearest.target_text
                              /\ e2_target' =
                                   IF enter
                                     THEN IF e2_nav_mode = "Nearest"
                                            THEN nearest_object
                                            ELSE cursor.cursor_nearest_entity
                                     ELSE e2_target
                         ELSE UNCHANGED << e2_nearest_object_crosshair,
                                           e2_target_display, e2_target >>
                    /\ e2_run' = [reached |-> IF nearest_resolves
                                                THEN "done"
                                                ELSE "no_nearest",
                                  cursor_nearest_entity |->
                                      cursor.cursor_nearest_entity,
                                  target |-> e2_target,
                                  nearest |-> IF nearest_resolves
                                                THEN nearest_object
                                                ELSE NoneV]
    /\ UNCHANGED << e2_pellet_phase, e2_btn, e2_origin, e2_pellets,
                    e2_viewport, e2_camera_2d, e2_command_entry, e2_nav_mode >>
    /\ UNCHANGED << e1_vars, e3_vars, e2_app_vars >>

NoRun ==
    [reached |-> "start", cursor_nearest_entity |-> NoneV, target |-> NoneV,
     nearest |-> NoneV]

\* the command entry part, first system of a frame; key_c, key_n, key_t:
\* key.just_pressed(..); finished: CommandEntryTimer.finished()
miscellaneous_input_handling ==
    /\ e2_phase = "PreUpdate"
    /\ e2_phase' = "Update"
    /\ \E key_c \in BOOLEAN, key_n \in BOOLEAN, key_t \in BOOLEAN,
          finished \in BOOLEAN :
         IF IsSome(e2_command_entry)
           THEN IF ~finished
                  THEN /\ e2_nav_mode' =
                            IF key_n THEN "Nearest"
                            ELSE IF key_c THEN "Cursor"
                            ELSE e2_nav_mode
                       /\ UNCHANGED e2_command_entry
                  ELSE /\ e2_command_entry' =
                            IF key_t
                              THEN Some("NavTargetModeSelect")
                              ELSE e2_command_entry
                       /\ UNCHANGED e2_nav_mode
           ELSE /\ e2_command_entry' =
                     IF key_t
                       THEN Some("NavTargetModeSelect")
                       ELSE e2_command_entry
                /\ UNCHANGED e2_nav_mode
    /\ e2_run' = NoRun
    /\ UNCHANGED << e2_pellet_phase, e2_btn, e2_origin, e2_pellets,
                    e2_viewport, e2_camera_2d, e2_cursor_target_crosshair,
                    e2_target_object_crosshair, e2_nearest_object_crosshair,
                    e2_target_display, e2_target >>
    /\ UNCHANGED << e1_vars, e3_vars, e2_app_vars >>

\* physics, camera controller and TransformSystem::TransformPropagate: the
\* targets and the cameras take new positions
TransformPropagate ==
    /\ e2_phase = "Update"
    /\ e2_phase' = "PostUpdate"
    /\ e2_viewport' \in [ValidTargets -> ViewportResults]
    /\ e2_camera_2d' \in Camera2dStates
    /\ UNCHANGED << e2_pellet_phase, e2_btn, e2_origin, e2_pellets,
                    e2_cursor_target_crosshair, e2_target_object_crosshair,
                    e2_nearest_object_crosshair, e2_target_display, e2_target,
                    e2_command_entry, e2_nav_mode, e2_run >>
    /\ UNCHANGED << e1_vars, e3_vars, e2_app_vars >>

e2_Init ==
    /\ e2_phase = "PreUpdate"
    /\ e2_pellet_phase = "Input"
    /\ e2_btn = [pressed |-> FALSE, just_pressed |-> FALSE]
    /\ e2_origin = [cell |-> Vec3(0, 0, 0), translation |-> Vec3(1600, 0, 0),
                    forward |-> Vec3(0, 0, -1)]
    /\ e2_pellets = << >>
    /\ e2_viewport = [e \in SetupTargets |-> NoneV]
    /\ e2_camera_2d = [viewport |-> TRUE, nan |-> FALSE]
    /\ e2_cursor_target_crosshair = HiddenAtOrigin
    /\ e2_target_object_crosshair = HiddenAtOrigin
    /\ e2_nearest_object_crosshair = HiddenAtOrigin
    /\ e2_target_display = "No Target"
    /\ e2_target = NoneV
    /\ e2_command_entry = NoneV
    /\ e2_nav_mode = "Cursor"
    /\ e2_run = NoRun

(***************************************************************************)
(* experiment_002: spawn_pellet                                            *)
(***************************************************************************)
\* floating_origin_grid_transform.transform.forward() * 0.125, in eighths
ForwardOffset(forward) == forward

\* GridTransform values the camera controller moves the floating origin to
OriginStates ==
    [cell : {Vec3(0, 0, 0), Vec3(1, 0, -1)},
     translation : {Vec3(1600, 0, 0), Vec3(0, -40, 8)},
     forward : {Vec3(0, 0, -1), Vec3(1, 0, 0), Vec3(0, 1, 0)}]

\* PreUpdate, InputSystem set; a new press is delivered only while fewer
\* than MaxPellets pellets exist
mouse_button_input_system ==
    /\ e2_pellet_phase = "Input"
    /\ e2_pellet_phase' = "PreUpdate"
    /\ \E events \in {"none", "Pressed", "Released", "PressedReleased"} :
         /\ e2_btn' = ButtonAfter(e2_btn, events)
         /\ e2_btn'.just_pressed => Len(e2_pellets) < MaxPellets
    /\ UNCHANGED << e2_phase, e2_origin, e2_pellets, e2_viewport, e2_camera_2d,
                    e2_cursor_target_crosshair, e2_target_object_crosshair,
                    e2_nearest_object_crosshair, e2_target_display, e2_target,
                    e2_command_entry, e2_nav_mode, e2_run >>
    /\ UNCHANGED << e1_vars, e3_vars, e2_app_vars >>

\* spawn_pellet testing btn.pressed
spawn_pellet_while_pressed ==
    /\ e2_pellet_phase = "PreUpdate"
    /\ e2_pellet_phase' = "Update"
    /\ e2_pellets' =
         IF e2_btn.pressed /\ Len(e2_pellets) < MaxPellets
           THEN Append(e2_pellets,
                       [id |-> PelletName[Len(e2_pellets) + 1],
                        valid_target |-> TRUE,
                        cell |-> e2_origin.cell,
                        translation |->
                            Vec3Add(e2_origin.translation,
                                    ForwardOffset(e2_origin.forward))])
           ELSE e2_pellets
    /\ UNCHANGED << e2_phase, e2_btn, e2_origin, e2_viewport, e2_camera_2d,
                    e2_cursor_target_crosshair, e2_target_object_crosshair,
                    e2_nearest_object_crosshair, e2_target_display, e2_target,
                    e2_command_entry, e2_nav_mode, e2_run >>
    /\ UNCHANGED << e1_vars, e3_vars, e2_app_vars >>

\* the spawn command is applied when the PreUpdate schedule ends
spawn_pellet ==
    /\ e2_pellet_phase = "PreUpdate"
    /\ e2_pellet_phase' = "Update"
    /\ e2_pellets' =
         IF e2_btn.just_pressed
           THEN Append(e2_pellets,
                       [id |-> PelletName[Len(e2_pellets) + 1],
                        valid_target |-> TRUE,
                        cell |-> e2_origin.cell,
                        translation |->
                            Vec3Add(e2_origin.translation,
                                    ForwardOffset(e2_origin.forward))])
           ELSE e2_pellets
    /\ UNCHANGED << e2_phase, e2_btn, e2_origin, e2_viewport, e2_camera_2d,
                    e2_cursor_target_crosshair, e2_target_object_crosshair,
                    e2_nearest_object_crosshair, e2_target_display, e2_target,
                    e2_command_entry, e2_nav_mode, e2_run >>
    /\ UNCHANGED << e1_vars, e3_vars, e2_app_vars >>

\* big_space camera controller: the floating origin moves, turns and is
\* re-centred on another grid cell
camera_controller ==
    /\ e2_pellet_phase = "Update"
    /\ e2_pellet_phase' = "Input"
    /\ e2_origin' \in OriginStates
    /\ UNCHANGED << e2_phase, e2_btn, e2_pellets, e2_viewport, e2_camera_2d,
                    e2_cursor_target_crosshair, e2_target_object_crosshair,
                    e2_nearest_object_crosshair, e2_target_display, e2_target,
                    e2_command_entry, e2_nav_mode, e2_run >>
    /\ UNCHANGED << e1_vars, e3_vars, e2_app_vars >>

NextPellet002 ==
    \/ mouse_button_input_system
    \/ spawn_pellet
    \/ camera_controller

NextHud002 ==
    \/ miscellaneous_input_handling
    \/ TransformPropagate
    \/ update_hud_reticles

(***************************************************************************)
(* experiment_003: update_targeting_overlay                                *)
(***************************************************************************)
\* three of the ValidTarget entities with ComponentInfo spawned by setup
Targets003 == {"Sun", "Saturn", "Starting Location"}

\* ComponentInfo.size: sun_radius_m, saturn_radius_m, purple_ball_radius_m
ComponentSize ==
    [e \in Targets003 |->
       CASE e = "Sun" -> 695508000
         [] e = "Saturn" -> 58232000
         [] e = "Starting Location" -> 1]

\* viewport positions a target can project to: two inside the viewport rect,
\* 2 and 5 pixels from its centre, and one outside, 7 pixels from it
ViewportPositions003 == {Vec2(8, 4), Vec2(11, 2), Vec2(8, 13)}

ViewportResults003 == {NoneV} \cup {Some(p) : p \in ViewportPositions003}

CursorLoopStart003 ==
    [cursor_target_onscreen |-> FALSE, cursor_nearest |-> CursorNearestInit,
     cursor_nearest_entity |-> NoneV, cursor_nearest_size |-> 0]

\* the loop body with the size test applied to every nearer candidate
overlay_nearest_step_always_by_size(acc, entity, viewport, camera_2d) ==
    IF ~IsSome(viewport[entity])
      THEN acc
      ELSE LET each_2d == viewport_to_world_2d(camera_2d, viewport[entity].val)
           IN  IF IsSome(each_2d)
                  /\ Length(each_2d.val) - Length(acc.cursor_nearest) < 0
                  /\ ComponentSize[entity] > acc.cursor_nearest_size
                 THEN [cursor_target_onscreen |-> TRUE,
                       cursor_nearest |-> each_2d.val,
                       cursor_nearest_entity |-> Some(entity),
                       cursor_nearest_size |-> ComponentSize[entity]]
                 ELSE acc

\* one iteration of the loop over valid_targets_query
overlay_nearest_step(acc, entity, viewport, camera_2d) ==
    IF ~IsSome(viewport[entity])
      THEN acc
      ELSE LET each_2d == viewport_to_world_2d(camera_2d, viewport[entity].val)
               length_difference ==
                   Length(each_2d.val) - Length(acc.cursor_nearest)
               taken == [cursor_target_onscreen |-> TRUE,
                         cursor_nearest |-> each_2d.val,
                         cursor_nearest_entity |-> Some(entity),
                         cursor_nearest_size |-> ComponentSize[entity]]
           IN  IF ~IsSome(each_2d)
                 THEN acc
                 ELSE IF length_difference < 0
                        THEN IF length_difference > -3
                               THEN IF ComponentSize[entity]
                                         > acc.cursor_nearest_size
                                      THEN taken
                                      ELSE acc
                               ELSE taken
                        ELSE acc

RECURSIVE overlay_nearest_loop(_, _, _, _)
overlay_nearest_loop(order, acc, viewport, camera_2d) ==
    IF order = << >>
      THEN acc
      ELSE overlay_nearest_loop(Tail(order),
                                overlay_nearest_step(acc, Head(order),
                                                     viewport, camera_2d),
                                viewport, camera_2d)

\* the match on the target with the (true, None) arm of experiment_002,
\* which leaves the reticle Visible
target_overlay_visible_on_nan(reticle, label, target, viewport_result, rect, camera_2d) ==
    IF ~IsSome(viewport_result)
      THEN [reticle |-> [reticle EXCEPT !.visibility = "Hidden"],
            label |-> [label EXCEPT !.visibility = "Hidden"]]
      ELSE LET inside == Contains(rect, viewport_result.val)
               overlay == viewport_to_world_2d(camera_2d, viewport_result.val)
           IN  CASE inside /\ IsSome(overlay) ->
                      [reticle |-> [visibility |-> "Visible",
                                    x |-> overlay.val.x, y |-> overlay.val.y],
                       label |-> [visibility |-> "Visible",
                                  top |-> viewport_result.val.y + 15,
                                  left |-> viewport_result.val.x + 15,
                                  text |-> target]]
                 [] inside /\ ~IsSome(overlay) ->
                      [reticle |-> [reticle EXCEPT !.visibility = "Visible"],
                       label |-> [label EXCEPT !.visibility = "Hidden"]]
                 [] OTHER ->
                      [reticle |-> [reticle EXCEPT !.visibility = "Hidden"],
                       label |-> [label EXCEPT !.visibility = "Hidden"]]

\* the match on world_to_viewport of the selected target; the label text is
\* the ComponentInfo name of the target
target_overlay_update(reticle, label, target, viewport_result, rect, camera_2d) ==
    IF ~IsSome(viewport_result)
      THEN [reticle |-> [reticle EXCEPT !.visibility = "Hidden"],
            label |-> [label EXCEPT !.visibility = "Hidden"]]
      ELSE LET inside == Contains(rect, viewport_result.val)
               overlay == viewport_to_world_2d(camera_2d, viewport_result.val)
           IN  CASE inside /\ IsSome(overlay) ->
                      [reticle |-> [visibility |-> "Visible",
                                    x |-> overlay.val.x, y |-> overlay.val.y],
                       label |-> [visibility |-> "Visible",
                                  top |-> viewport_result.val.y + 15,
                                  left |-> viewport_result.val.x + 15,
                                  text |-> target]]
                 [] ~inside /\ IsSome(overlay) ->
                      [reticle |-> [reticle EXCEPT !.visibility = "Hidden"],
                       label |-> [label EXCEPT !.visibility = "Hidden"]]
                 [] inside /\ ~IsSome(overlay) ->
                      [reticle |-> [reticle EXCEPT !.visibility = "Hidden"],
                       label |-> [label EXCEPT !.visibility = "Hidden"]]
                 [] ~inside /\ ~IsSome(overlay) ->
                      [reticle |-> [reticle EXCEPT !.visibility = "Hidden"],
                       label |-> [label EXCEPT !.visibility = "Hidden"]]

NoRun003 ==
    [reached |-> "start", cursor_nearest_entity |-> NoneV, target |-> NoneV]

\* order: iteration order of valid_targets_query; enter:
\* key.just_pressed(Enter)
\* the systems of Update that use TargetResource; both take it mutably, so
\* they run one after the other in an order the schedule chooses
UpdateSystems003 == {"ui_text_update", "update_targeting_overlay"}

\* the match on target_resource.target; the None arm is todo!()
ui_text_update ==
    /\ e3_status = "running"
    /\ "ui_text_update" \in e3_pending
    /\ e3_pending' = e3_pending \ {"ui_text_update"}
    /\ e3_status' = IF IsSome(e3_target) THEN "running" ELSE "panicked"
    /\ UNCHANGED << e3_viewport, e3_camera_2d, e3_cursor_nearest_reticle,
                    e3_target_object_reticle, e3_target_label, e3_target,
                    e3_run >>
    /\ UNCHANGED << e1_vars, e2_vars, e2_app_vars >>

update_targeting_overlay ==
    /\ e3_status = "running"
    /\ "update_targeting_overlay" \in e3_pending
    /\ e3_pending' = e3_pending \ {"update_targeting_overlay"}
    /\ \E order \in IterationOrders(Targets003), enter \in BOOLEAN :
         LET cursor == overlay_nearest_loop(order, CursorLoopStart003,
                                            e3_viewport, e3_camera_2d)
             rect_option == logical_viewport_rect(e3_camera_2d)
             target_resolves == IsSome(e3_target) /\ e3_target.val \in Targets003
             overlay == target_overlay_update(e3_target_object_reticle,
                                              e3_target_label, e3_target.val,
                                              e3_viewport[e3_target.val],
                                              rect_option.val, e3_camera_2d)
         IN  /\ e3_cursor_nearest_reticle' =
                  IF cursor.cursor_target_onscreen
                    THEN [visibility |-> "Visible",
                          x |-> cursor.cursor_nearest.x,
                          y |-> cursor.cursor_nearest.y]
                    ELSE e3_cursor_nearest_reticle
             /\ IF ~IsSome(rect_option)
                  THEN /\ e3_run' = [reached |-> "no_rect",
                                     cursor_nearest_entity |->
                                         cursor.cursor_nearest_entity,
                                     target |-> e3_target]
                       /\ UNCHANGED << e3_target_object_reticle,
                                       e3_target_label, e3_target >>
                  ELSE /\ IF target_resolves
                            THEN /\ e3_target_object_reticle' = overlay.reticle
                                 /\ e3_target_label' = overlay.label
                            ELSE UNCHANGED << e3_target_object_reticle,
                                              e3_target_label >>
                       /\ e3_target' = IF enter
                                         THEN cursor.cursor_nearest_entity
                                         ELSE e3_target
                       /\ e3_run' = [reached |-> "done",
                                     cursor_nearest_entity |->
                                         cursor.cursor_nearest_entity,
                                     target |-> e3_target]
    /\ UNCHANGED << e3_status, e3_viewport, e3_camera_2d >>
    /\ UNCHANGED << e1_vars, e2_vars, e2_app_vars >>

\* PostUpdate: camera controller and transform propagation; the targets and
\* the cameras take new positions
TransformPropagate003 ==
    /\ e3_status = "running"
    /\ e3_pending = {}
    /\ e3_pending' = UpdateSystems003
    /\ e3_viewport' \in [Targets003 -> ViewportResults003]
    /\ e3_camera_2d' \in Camera2dStates
    /\ e3_run' = NoRun003
    /\ UNCHANGED << e3_status, e3_cursor_nearest_reticle,
                    e3_target_object_reticle, e3_target_label, e3_target >>
    /\ UNCHANGED << e1_vars, e2_vars, e2_app_vars >>

e3_Init ==
    /\ e3_pending = UpdateSystems003
    /\ e3_status = "running"
    /\ e3_viewport = [e \in Targets003 |-> NoneV]
    /\ e3_camera_2d = [viewport |-> TRUE, nan |-> FALSE]
    /\ e3_cursor_nearest_reticle = HiddenAtOrigin
    /\ e3_target_object_reticle = [visibility |-> "Visible", x |-> 0, y |-> 0]
    /\ e3_target_label = [visibility |-> "Hidden", top |-> 100, left |-> 10,
                          text |-> "Test Label"]
    /\ e3_target = Some("Saturn")
    /\ e3_run = NoRun003

Next003 ==
    \/ TransformPropagate003
    \/ ui_text_update
    \/ update_targeting_overlay

(***************************************************************************)
(* experiment_002: from start-up to the Running state                      *)
(***************************************************************************)
\* the handles of SceneAssets, MeshAssets and SkyBoxAssets
SceneAssets002 == {"nav_ring_scene", "nav_ball_scene", "nav_ball_orbital_scene",
                   "inverted_xyz_ball_scene", "jupiter_scene"}

MeshAssets002 == {"nav_ring_mesh", "nav_ball_mesh", "nav_ball_orbital_mesh",
                  "inverted_xyz_ball_mesh", "jupiter_mesh"}

SkyBoxAssets002 == {"milky_way_skybox"}

\* the handles wait_for_asset_loading passes to scenes.get, meshes.get and
\* skyboxes.get: the two nav_ring options read the nav_ball handles
WaitedAssets ==
    {"nav_ball_scene", "nav_ball_scene", "nav_ball_orbital_scene",
     "inverted_xyz_ball_scene", "jupiter_scene",
     "nav_ball_mesh", "nav_ball_mesh", "nav_ball_orbital_mesh",
     "inverted_xyz_ball_mesh", "jupiter_mesh",
     "milky_way_skybox"}

\* resources inserted by general_setup
SetupResources ==
    {"TargetResource", "CommandEntryResource", "OpsModeResource"}

NoSetupEntities ==
    [camera_2d |-> 0, cursor_target_crosshair |-> 0,
     nearest_object_crosshair |-> 0, target_object_crosshair |-> 0,
     command_entry_timer |-> 0, debug_hud_text |-> 0, target_display |-> 0]

NoAppCommands == [insert_resource |-> {}, spawn |-> NoSetupEntities]

\* the systems main() adds to each schedule, by run condition
Systems002(phase, state) ==
    CASE phase = "PreUpdate" /\ state = "Running" ->
           {"miscellaneous_input_handling", "spawn_pellet"}
      [] phase = "Update" /\ state = "Loading" -> {"wait_for_asset_loading"}
      [] phase = "Update" /\ state = "PreRunning" ->
           {"general_setup", "ui_setup"}
      [] phase = "Update" /\ state = "Running" -> {"tick_timers", "update_hud"}
      [] phase = "PostUpdate" /\ state = "Running" ->
           {"update_ui_text", "update_hud_reticles"}
      [] OTHER -> {}

CanRun002(system) ==
    /\ e2_app_status = "running"
    /\ system \in Systems002(e2_app_phase, e2_app_state)
    /\ system \notin e2_app_ran

\* what a Running-state system takes on entry: Res / ResMut parameters and
\* the queries it calls single() or single_mut() on before any early return
SystemParams(system) ==
    CASE system = "miscellaneous_input_handling" ->
           [res |-> {"CommandEntryResource", "OpsModeResource"}, single |-> {}]
      [] system = "spawn_pellet" -> [res |-> {}, single |-> {}]
      [] system = "tick_timers" ->
           [res |-> {}, single |-> {"command_entry_timer"}]
      [] system = "update_hud" -> [res |-> {"TargetResource"}, single |-> {}]
      [] system = "update_ui_text" ->
           [res |-> {}, single |-> {"debug_hud_text"}]
      [] system = "update_hud_reticles" ->
           [res |-> {"TargetResource", "OpsModeResource"},
            single |-> {"camera_2d"}]

\* the asset server finishes loading one asset
AssetLoaded002 ==
    /\ e2_app_status = "running"
    /\ e2_app_phase = "PreUpdate" /\ e2_app_ran = {}
    /\ \E a \in (SceneAssets002 \cup MeshAssets002 \cup SkyBoxAssets002)
                  \ e2_assets :
         e2_assets' = e2_assets \cup {a}
    /\ UNCHANGED << e2_app_state, e2_app_next_state, e2_app_phase, e2_app_ran,
                    e2_app_status, e2_skybox_layers, e2_window,
                    e2_app_commands, e2_resources, e2_entities, e2_history >>
    /\ UNCHANGED << e1_vars, e2_vars, e3_vars >>

\* the PrimaryWindow entity is despawned
WindowDespawned ==
    /\ e2_app_status = "running"
    /\ e2_app_phase = "PreUpdate" /\ e2_app_ran = {}
    /\ e2_window
    /\ e2_window' = FALSE
    /\ UNCHANGED << e2_app_state, e2_app_next_state, e2_app_phase, e2_app_ran,
                    e2_app_status, e2_assets, e2_skybox_layers,
                    e2_app_commands, e2_resources, e2_entities, e2_history >>
    /\ UNCHANGED << e1_vars, e2_vars, e3_vars >>

\* the end of a schedule: its Commands are applied; PreUpdate is followed
\* by StateTransition, Update by PostUpdate, PostUpdate by the next frame
EndSchedule002 ==
    /\ e2_app_status = "running"
    /\ e2_app_phase \in {"PreUpdate", "Update", "PostUpdate"}
    /\ e2_app_ran = Systems002(e2_app_phase, e2_app_state)
    /\ e2_resources' = e2_resources \cup e2_app_commands.insert_resource
    /\ e2_entities' = [k \in DOMAIN e2_entities |->
                         e2_entities[k] + e2_app_commands.spawn[k]]
    /\ e2_app_commands' = NoAppCommands
    /\ e2_app_ran' = {}
    /\ e2_app_phase' = CASE e2_app_phase = "PreUpdate" -> "StateTransition"
                         [] e2_app_phase = "Update" -> "PostUpdate"
                         [] e2_app_phase = "PostUpdate" -> "PreUpdate"
    /\ UNCHANGED << e2_app_state, e2_app_next_state, e2_app_status, e2_assets,
                    e2_skybox_layers, e2_window, e2_history >>
    /\ UNCHANGED << e1_vars, e2_vars, e3_vars >>

\* StateTransition schedule: apply_state_transition::<AppState>; the frame
\* is counted for the state its Update schedule runs in
StateTransition002 ==
    /\ e2_app_status = "running"
    /\ e2_app_phase = "StateTransition"
    /\ IF IsSome(e2_app_next_state)
          THEN /\ e2_app_state' = e2_app_next_state.val
               /\ e2_app_next_state' = NoneV
          ELSE UNCHANGED << e2_app_state, e2_app_next_state >>
    /\ e2_history' =
          IF e2_app_state' = "PreRunning"
            THEN [e2_history EXCEPT !.prerunning_frames = @ + 1]
            ELSE e2_history
    /\ e2_app_phase' = "Update"
    /\ UNCHANGED << e2_app_ran, e2_app_status, e2_assets, e2_skybox_layers,
                    e2_window, e2_app_commands, e2_resources, e2_entities >>
    /\ UNCHANGED << e1_vars, e2_vars, e3_vars >>

\* Image::reinterpret_stacked_2d_as_array asserts that the image has one
\* layer; the milky-way image is a stack of the 6 faces of a cube map
wait_for_asset_loading ==
    /\ CanRun002("wait_for_asset_loading")
    /\ LET all_assets_loaded == WaitedAssets \subseteq e2_assets
           image_loaded == "milky_way_skybox" \in e2_assets
       IN  /\ e2_app_next_state' = IF all_assets_loaded
                                     THEN Some("PreRunning")
                                     ELSE e2_app_next_state
           /\ e2_history' =
                IF image_loaded
                  THEN [e2_history EXCEPT !.reinterprets = @ + 1]
                  ELSE e2_history
           /\ IF image_loaded /\ e2_skybox_layers # 1
                THEN /\ e2_app_status' = "panicked"
                     /\ UNCHANGED << e2_skybox_layers, e2_app_ran >>
                ELSE /\ e2_skybox_layers' = IF image_loaded
                                             THEN 6
                                             ELSE e2_skybox_layers
                     /\ e2_app_ran' = e2_app_ran \cup {"wait_for_asset_loading"}
                     /\ UNCHANGED e2_app_status
    /\ UNCHANGED << e2_app_state, e2_app_phase, e2_assets, e2_window,
                    e2_app_commands, e2_resources, e2_entities >>
    /\ UNCHANGED << e1_vars, e2_vars, e3_vars >>

\* returns early without a primary window; otherwise queues the overlay
\* camera, the crosshairs, the timer and the three resources
general_setup ==
    /\ CanRun002("general_setup")
    /\ IF e2_window
          THEN /\ e2_app_commands' =
                     [insert_resource |->
                          e2_app_commands.insert_resource \cup SetupResources,
                      spawn |->
                          [e2_app_commands.spawn EXCEPT
                             !.camera_2d = @ + 1,
                             !.cursor_target_crosshair = @ + 1,
                             !.nearest_object_crosshair = @ + 1,
                             !.target_object_crosshair = @ + 1,
                             !.command_entry_timer = @ + 1]]
               /\ e2_app_next_state' = Some("Running")
          ELSE UNCHANGED << e2_app_commands, e2_app_next_state >>
    /\ e2_history' = [e2_history EXCEPT !.general_setup = @ + 1]
    /\ e2_app_ran' = e2_app_ran \cup {"general_setup"}
    /\ UNCHANGED << e2_app_state, e2_app_phase, e2_app_status, e2_assets,
                    e2_skybox_layers, e2_window, e2_resources, e2_entities >>
    /\ UNCHANGED << e1_vars, e2_vars, e3_vars >>

\* ui_setup leaving the state to general_setup
ui_setup_without_state_set ==
    /\ CanRun002("ui_setup")
    /\ e2_app_commands' =
          [e2_app_commands EXCEPT !.spawn.debug_hud_text = @ + 1,
                                  !.spawn.target_display = @ + 1]
    /\ e2_history' = [e2_history EXCEPT !.ui_setup = @ + 1]
    /\ e2_app_ran' = e2_app_ran \cup {"ui_setup"}
    /\ UNCHANGED << e2_app_state, e2_app_next_state, e2_app_phase,
                    e2_app_status, e2_assets, e2_skybox_layers, e2_window,
                    e2_resources, e2_entities >>
    /\ UNCHANGED << e1_vars, e2_vars, e3_vars >>

ui_setup ==
    /\ CanRun002("ui_setup")
    /\ e2_app_commands' =
          [e2_app_commands EXCEPT !.spawn.debug_hud_text = @ + 1,
                                  !.spawn.target_display = @ + 1]
    /\ e2_app_next_state' = Some("Running")
    /\ e2_history' = [e2_history EXCEPT !.ui_setup = @ + 1]
    /\ e2_app_ran' = e2_app_ran \cup {"ui_setup"}
    /\ UNCHANGED << e2_app_state, e2_app_phase, e2_app_status, e2_assets,
                    e2_skybox_layers, e2_window, e2_resources, e2_entities >>
    /\ UNCHANGED << e1_vars, e2_vars, e3_vars >>

\* a system of the Running state starts: a missing resource, or a query
\* that single() finds empty or with several entities, panics
RunningSystem ==
    \E system \in {"miscellaneous_input_handling", "spawn_pellet",
                   "tick_timers", "update_hud", "update_ui_text",
                   "update_hud_reticles"} :
      /\ CanRun002(system)
      /\ IF /\ SystemParams(system).res \subseteq e2_resources
            /\ \A k \in SystemParams(system).single : e2_entities[k] = 1
           THEN /\ e2_app_ran' = e2_app_ran \cup {system}
                /\ UNCHANGED e2_app_status
           ELSE /\ e2_app_status' = "panicked"
                /\ UNCHANGED e2_app_ran
      /\ UNCHANGED << e2_app_state, e2_app_next_state, e2_app_phase, e2_assets,
                      e2_skybox_layers, e2_window, e2_app_commands,
                      e2_resources, e2_entities, e2_history >>
      /\ UNCHANGED << e1_vars, e2_vars, e3_vars >>

\* after the Startup schedule: the asset handles are requested, the 3-D
\* camera exists, the window is open
e2_app_Init ==
    /\ e2_app_state = "Loading"
    /\ e2_app_next_state = NoneV
    /\ e2_app_phase = "PreUpdate"
    /\ e2_app_ran = {}
    /\ e2_app_status = "running"
    /\ e2_assets = {}
    /\ e2_skybox_layers = 1
    /\ e2_window = TRUE
    /\ e2_app_commands = NoAppCommands
    /\ e2_resources = {}
    /\ e2_entities = NoSetupEntities
    /\ e2_history = [prerunning_frames |-> 0, reinterprets |-> 0,
                     general_setup |-> 0, ui_setup |-> 0]

NextApp002 ==
    \/ AssetLoaded002
    \/ WindowDespawned
    \/ StateTransition002
    \/ wait_for_asset_loading
    \/ general_setup
    \/ ui_setup
    \/ RunningSystem
    \/ EndSchedule002

(***************************************************************************)
(* Specifications                                                          *)
(***************************************************************************)
Init == e1_Init /\ e2_Init /\ e3_Init /\ e2_app_Init

Spec001 == Init /\ [][Next001]_vars

SpecHud002 == Init /\ [][NextHud002]_vars

SpecPellet002 == Init /\ [][NextPellet002]_vars

Spec003 == Init /\ [][Next003]_vars

SpecApp002 == Init /\ [][NextApp002]_vars

(***************************************************************************)
(* experiment_001: properties                                              *)
(***************************************************************************)
AppStateOrder ==
    {<< "Loading", "Generating" >>, << "Generating", "Spawning" >>,
     << "Spawning", "Running" >>}

\* C7: AppState only ever changes along Loading -> Generating -> Spawning
\* -> Running, one step at a time; no state is skipped or revisited and
\* Running is never left.
C7_AppStateOrder ==
    [][e1_state' # e1_state => << e1_state, e1_state' >> \in AppStateOrder]_vars

C7_Witness == e1_state = "Running" /\ e1_phase = "Update"

\* C8: whenever initiate_spawning is due to run (state Spawning, Update
\* schedule), the ColliderAssets resource has been inserted.
C8_ColliderAssetsInserted ==
    (e1_state = "Spawning" /\ e1_phase = "Update") => e1_collider_assets

SpawnedOnce ==
    [light |-> 1, earth |-> 1, command_pod |-> 1, torus |-> ChainLength]

\* C9: in an execution that reached Spawning, once the Spawning frame is
\* over, initiate_spawning has run in exactly one frame and the world holds
\* exactly 100 Torus, one Earth, one light and one CommandPod.
C9_SpawnedExactlyOnce ==
    (\/ e1_state = "Running"
     \/ e1_state = "Spawning" /\ e1_status # "running")
        => (e1_spawning_runs = 1 /\ e1_world = SpawnedOnce)

Max(a, b) == IF a >= b THEN a ELSE b

Min(a, b) == IF a <= b THEN a ELSE b

\* a wheel event as C10 states it: y > 0 divides by 1.1, y < 0 multiplies
\* by 1.1, and the result is clamped to [PI/1000, PI/2]
ZoomStep(fov, y) ==
    Max(PI \div 1000,
        Min(PI \div 2,
            CASE y > 0 -> RoundDiv(10 * fov, 11)
              [] y < 0 -> RoundDiv(11 * fov, 10)
              [] OTHER -> fov))

ZoomFrame(fov, middle, events) ==
    LET start == IF middle THEN PI \div 4 ELSE fov
    IN  CASE Len(events) = 0 -> start
          [] Len(events) = 1 -> ZoomStep(start, events[1])
          [] Len(events) = 2 -> ZoomStep(ZoomStep(start, events[1]), events[2])
          [] Len(events) = 3 ->
               ZoomStep(ZoomStep(ZoomStep(start, events[1]), events[2]),
                        events[3])

\* C10: the field of view stays within [PI/1000, PI/2]; a frame of
\* camera_controls first sets it to PI/4 when the middle button is held and
\* then applies the wheel events in order, each dividing (y > 0) or
\* multiplying (y < 0) by 1.1 and clamping; nothing else changes it.
C10_FieldOfView ==
    /\ [](e1_fov >= PI \div 1000 /\ e1_fov <= PI \div 2)
    /\ [][IF "camera_controls" \in e1_ran' \ e1_ran
            THEN e1_fov' = ZoomFrame(e1_fov, e1_input.middle, e1_input.wheel)
            ELSE e1_fov' = e1_fov]_vars

\* the zoom-in clamp was taken by a wheel event
C10_Witness ==
    /\ "camera_controls" \in e1_ran
    /\ e1_input.wheel # << >>
    /\ e1_input.wheel[Len(e1_input.wheel)] > 0
    /\ e1_fov = PI \div 1000

\* CommandPod entities that exist or whose spawn is queued in Commands
CommandPods == e1_world.command_pod + e1_commands.spawn.command_pod

\* C11: in the Running state the number of CommandPod entities is one plus
\* the number of Running frames in which KeyI was just pressed (between
\* frames, and inside a frame once state_controls ran and counting the pod
\* whose spawn is queued); a held KeyI adds nothing; outside the Running
\* state the only pod is the one of initiate_spawning.
C11_PodPerKeyIFrame ==
    /\ (e1_state = "Running"
        /\ (e1_phase \in {"PreUpdate", "StateTransition"}
            \/ "state_controls" \in e1_ran))
          => CommandPods = 1 + e1_key_i_frames
    /\ e1_phase \in {"PreUpdate", "StateTransition"}
          => e1_commands.spawn.command_pod = 0
    /\ e1_state # "Running" => CommandPods = e1_spawning_runs

\* KeyI is still held in a later frame and state_controls spawned nothing
C11_Witness ==
    /\ e1_state = "Running"
    /\ "state_controls" \in e1_ran
    /\ e1_input.key_i.pressed /\ ~e1_input.key_i.just_pressed
    /\ e1_key_i_frames = 1
    /\ e1_world.command_pod = 2
    /\ e1_commands.spawn.command_pod = 0

(***************************************************************************)
(* experiment_002: properties                                              *)
(***************************************************************************)
\* update_hud_reticles has just run and passed the viewport-rect check
PassedRectCheck ==
    e2_phase = "PreUpdate" /\ e2_run.reached \in {"no_nearest", "done"}

\* both projections of a ValidTarget succeed, below the initial sentinel
ProjectsToOverlay(e) ==
    /\ IsSome(e2_viewport[e])
    /\ IsSome(viewport_to_world_2d(e2_camera_2d, e2_viewport[e].val))
    /\ Length(viewport_to_world_2d(e2_camera_2d, e2_viewport[e].val).val)
         < CursorNearestInitLength

\* squared distance of the overlay position of e to the overlay origin
OverlayDistanceSquared(e) ==
    LET o == viewport_to_world_2d(e2_camera_2d, e2_viewport[e].val).val
    IN  o.x * o.x + o.y * o.y

\* C1: in every run that passes the viewport-rect check, the cursor-nearest
\* entity is a candidate with the smallest overlay distance among the
\* ValidTargets whose two projections succeed, and it is None exactly when
\* no candidate projects.
C1_CursorNearest ==
    PassedRectCheck =>
        LET chosen == e2_run.cursor_nearest_entity
            candidates == {e \in ValidTargets : ProjectsToOverlay(e)}
        IN  /\ (chosen = NoneV) <=> (candidates = {})
            /\ IsSome(chosen) =>
                 /\ chosen.val \in candidates
                 /\ \A c \in candidates :
                      OverlayDistanceSquared(chosen.val)
                        <= OverlayDistanceSquared(c)

\* a nearer candidate won over a farther one
C1_Witness ==
    /\ PassedRectCheck
    /\ IsSome(e2_run.cursor_nearest_entity)
    /\ \E c \in ValidTargets :
         /\ ProjectsToOverlay(c)
         /\ OverlayDistanceSquared(c)
              > OverlayDistanceSquared(e2_run.cursor_nearest_entity.val)

\* C3: for the camera controller's nearest object the display text is
\* 'behind us' exactly when world_to_viewport is None, 'onscreen' exactly
\* when the viewport position is inside the viewport rect and 'offscreen'
\* otherwise; NearestObjectCrosshair is Visible iff the onscreen case was
\* taken.
C3_NearestObjectDisplay ==
    (e2_phase = "PreUpdate" /\ e2_run.reached = "done") =>
        LET v == e2_viewport[e2_run.nearest.val]
            rect == logical_viewport_rect(e2_camera_2d).val
            text == IF v = NoneV
                      THEN "nearest object is behind us"
                      ELSE IF Contains(rect, v.val)
                             THEN "nearest object onscreen"
                             ELSE "nearest object offscreen"
        IN  /\ e2_target_display = text
            /\ (e2_nearest_object_crosshair.visibility = "Visible")
                 <=> (text = "nearest object onscreen")

\* the onscreen case with a failed viewport_to_world_2d
C3_Witness ==
    /\ e2_phase = "PreUpdate" /\ e2_run.reached = "done"
    /\ e2_camera_2d.nan
    /\ e2_target_display = "nearest object onscreen"
    /\ e2_nearest_object_crosshair.visibility = "Visible"

\* the target of the run resolved
TargetResolved == PassedRectCheck /\ IsSome(e2_run.target)

\* C5: after a run in which the selected target resolves, the
\* TargetObjectCrosshair is Hidden when the target is behind the camera or
\* outside the viewport rect and Visible when inside; a run moves its
\* translation exactly in the inside-rect case with a successful
\* viewport_to_world_2d, and then to the target's overlay position.
C5_TargetObjectCrosshair ==
    /\ [](TargetResolved =>
            LET v == e2_viewport[e2_run.target.val]
                rect == logical_viewport_rect(e2_camera_2d).val
            IN  IF IsSome(v) /\ Contains(rect, v.val)
                  THEN e2_target_object_crosshair.visibility = "Visible"
                  ELSE e2_target_object_crosshair.visibility = "Hidden")
    /\ [][(e2_phase = "PostUpdate" /\ e2_phase' = "PreUpdate") =>
            LET before == << e2_target_object_crosshair.x,
                             e2_target_object_crosshair.y >>
                after == << e2_target_object_crosshair'.x,
                            e2_target_object_crosshair'.y >>
                v == IF IsSome(e2_target) THEN e2_viewport[e2_target.val]
                                          ELSE NoneV
                rect == logical_viewport_rect(e2_camera_2d)
                overlay == IF IsSome(v)
                             THEN viewport_to_world_2d(e2_camera_2d, v.val)
                             ELSE NoneV
            IN  IF /\ IsSome(rect) /\ IsSome(v) /\ IsSome(overlay)
                   /\ Contains(rect.val, v.val)
                  THEN after = << overlay.val.x, overlay.val.y >>
                  ELSE after = before]_vars

\* the crosshair sits on the overlay position of an onscreen target
C5_Witness ==
    /\ TargetResolved
    /\ IsSome(e2_viewport[e2_run.target.val])
    /\ e2_target_object_crosshair =
         [visibility |-> "Visible",
          x |-> e2_viewport[e2_run.target.val].val.x - 8,
          y |-> 6 - e2_viewport[e2_run.target.val].val.y]

\* C6: a frame spawns exactly one pellet when the right mouse button is
\* just pressed and none otherwise; the pellet carries ValidTarget, the
\* GridCell of the FloatingOrigin and its translation plus 0.125 along its
\* forward direction (translations are in eighths of a metre).
C6_OnePelletPerPress ==
    [][e2_pellets' =
         IF e2_pellet_phase = "PreUpdate" /\ e2_btn.just_pressed
           THEN e2_pellets \o
                  << [id |-> PelletName[Len(e2_pellets) + 1],
                      valid_target |-> TRUE,
                      cell |-> e2_origin.cell,
                      translation |->
                          [x |-> e2_origin.translation.x + e2_origin.forward.x,
                           y |-> e2_origin.translation.y + e2_origin.forward.y,
                           z |-> e2_origin.translation.z
                                   + e2_origin.forward.z]] >>
           ELSE e2_pellets]_vars

\* two pellets spawned in different grid cells, the button still held
C6_Witness ==
    /\ Len(e2_pellets) >= 2
    /\ e2_pellets[1].cell # e2_pellets[2].cell
    /\ e2_btn.pressed /\ ~e2_btn.just_pressed

(***************************************************************************)
(* experiment_003: properties                                              *)
(***************************************************************************)
\* update_targeting_overlay has just run its cursor-nearest loop
LoopRan003 == e3_run.reached # "start"

ProjectsToOverlay003(e) ==
    /\ IsSome(e3_viewport[e])
    /\ IsSome(viewport_to_world_2d(e3_camera_2d, e3_viewport[e].val))

\* distance of the overlay position of e to the overlay origin
OverlayDistance003(e) ==
    Length(viewport_to_world_2d(e3_camera_2d, e3_viewport[e].val).val)

C4_LabelFollowsReticle ==
    /\ e3_target_label.visibility = "Visible"
         => e3_target_object_reticle.visibility = "Visible"
    /\ (e3_run.reached = "done" /\ IsSome(e3_run.target)) =>
          LET v == e3_viewport[e3_run.target.val]
              shown == /\ IsSome(v)
                       /\ Contains(logical_viewport_rect(e3_camera_2d).val,
                                   v.val)
                       /\ IsSome(viewport_to_world_2d(e3_camera_2d, v.val))
          IN  IF shown
                THEN /\ e3_target_object_reticle.visibility = "Visible"
                     /\ e3_target_label.visibility = "Visible"
                ELSE /\ e3_target_object_reticle.visibility = "Hidden"
                     /\ e3_target_label.visibility = "Hidden"

\* reticle and label shown on a target other than the initial one
C4_Witness ==
    /\ e3_run.reached = "done"
    /\ e3_run.target = Some("Sun")
    /\ e3_target_object_reticle.visibility = "Visible"
    /\ e3_target_label.visibility = "Visible"
    /\ e3_target_label.text = "Sun"

(***************************************************************************)
(* experiment_002: properties of the start-up                              *)
(***************************************************************************)
AppStateOrder002 ==
    {<< "Loading", "PreRunning" >>, << "PreRunning", "Running" >>}

\* C12: AppState changes only along Loading -> PreRunning -> Running, so
\* Running is never left; at most one frame is in PreRunning, general_setup
\* and ui_setup run at most once each, and once the state is Running each of
\* them has run exactly once, in the one PreRunning frame.
C12_AppStateOrder002 ==
    /\ [](/\ e2_history.prerunning_frames <= 1
          /\ e2_history.general_setup <= 1
          /\ e2_history.ui_setup <= 1
          /\ e2_app_state = "Running" =>
               /\ e2_history.prerunning_frames = 1
               /\ e2_history.general_setup = 1
               /\ e2_history.ui_setup = 1)
    /\ [][e2_app_state' # e2_app_state =>
            << e2_app_state, e2_app_state' >> \in AppStateOrder002]_vars

\* a second frame of the Running state has begun
C12_Witness ==
    /\ e2_app_state = "Running"
    /\ e2_app_phase = "PreUpdate"
    /\ "spawn_pellet" \in e2_app_ran
    /\ e2_history.general_setup = 1
    /\ e2_history.ui_setup = 1

\* C13: NextState is set to PreRunning only when every asset of SceneAssets,
\* MeshAssets and SkyBoxAssets is loaded, the nav_ring scene and mesh
\* included.
C13_PreRunningOnlyWhenAllLoaded ==
    e2_app_next_state = Some("PreRunning") =>
        (SceneAssets002 \cup MeshAssets002 \cup SkyBoxAssets002)
            \subseteq e2_assets

\* C14: reinterpret_stacked_2d_as_array is called on the milky-way skybox
\* image at most once, whatever the order in which the assets load.
C14_ReinterpretedAtMostOnce == e2_history.reinterprets <= 1

\* C15: whenever the state is Running the three resources of general_setup
\* exist and there is exactly one Camera2d, CursorTargetCrosshair,
\* NearestObjectCrosshair, TargetObjectCrosshair and CommandEntryTimer.
C15_SetupCompleteWhenRunning ==
    e2_app_state = "Running" =>
        /\ SetupResources \subseteq e2_resources
        /\ e2_entities.camera_2d = 1
        /\ e2_entities.cursor_target_crosshair = 1
        /\ e2_entities.nearest_object_crosshair = 1
        /\ e2_entities.target_object_crosshair = 1
        /\ e2_entities.command_entry_timer = 1

====
